---- MODULE Spec2Model ----
(***************************************************************************)
(* Aho-Corasick automaton with leftmost-longest match semantics            *)
(* (src/src/ahocorasick.rs, src/src/lib.rs).                               *)
(*                                                                         *)
(* LeftmostLongest::new is modelled step by step (build_trie, the three    *)
(* encode_* passes and the breadth-first encode_trie_failure), find is     *)
(* modelled one loop iteration at a time, with the walk along fail links   *)
(* of get_next_non_fail_node_id as steps of its own.  Node ids are the     *)
(* 0-based indices of the source; node id i is nodes[i + 1].               *)
(* Option<T> is a sequence: <<>> is None, <<x>> is Some(x).                *)
(***************************************************************************)
EXTENDS Integers, Sequences, FiniteSets, TLC

\* ---------------------------------------------------------------- bounds
\* greatest number of patterns of a pattern list
MaxPats == 2
\* greatest pattern length
MaxPatLen == 4
\* greatest total number of bytes of a pattern list
MaxTotal == 5
\* greatest haystack length
MaxHay == 3
\* greatest length of the second of three patterns whose first is its prefix
MaxPrefixed == 2
\* greatest haystack length for these
MaxHayPrefix == 4
\* greatest total number of bytes of a pattern list shared by two callers or
\* searched again and again
MaxTotalSmall == 2
\* greatest haystack length for these
MaxHaySmall == 2
\* greatest haystack length for the scans that leave a node three bytes deep
MaxHayLong == 4
\* greatest number of patterns, pattern length and total number of bytes of a
\* pattern list that is only constructed
MaxPatsNew == 3
MaxPatLenNew == 4
MaxTotalNew == 6

\* The byte values of the model: two of the 256 values of a u8.
Bytes == {0, 1}

\* ------------------------------------------------- program constants
FAIL == 0
DEAD == 1
START == 2

None == <<>>
Some(x) == <<x>>
is_some(o) == o # <<>>
unwrap(o) == o[1]

\* ----------------------------------------------------------- the state
VARIABLES
    patterns,   \* the argument of LeftmostLongest::new: Seq of Pattern {id, value}
    nodes,      \* LeftmostLongest.nodes: Vec<Node>
    queue,      \* encode_trie_failure's VecDeque<Position>
    pc,         \* position in LeftmostLongest::new
    built_from, \* number of patterns build_trie has inserted so far
    call,       \* per caller: the frame of its find call
    driver,     \* the frame of tests::all, the resumed scan of one haystack
    first,      \* history: the automaton of an earlier construction, if any
    pushed      \* history: the ids encode_trie_failure has pushed on its queue

vars == <<patterns, nodes, queue, pc, built_from, call, driver, first, pushed>>

\* ------------------------------------------------------------- helpers
RECURSIVE SeqsUpTo(_)
\* all byte sequences of length <= n
SeqsUpTo(n) ==
    IF n = 0 THEN {<<>>}
    ELSE LET shorter == SeqsUpTo(n - 1)
         IN shorter \cup {Append(s, b) : s \in {t \in shorter : Len(t) = n - 1}, b \in Bytes}

RECURSIVE PatternLists(_, _, _)
\* the lists of at most k byte sequences of length <= l and total length <= t
PatternLists(k, l, t) ==
    IF k = 0 THEN {<<>>}
    ELSE {<<>>} \cup
         UNION {{<<v>> \o rest : rest \in PatternLists(k - 1, l, t - Len(v))} :
                  v \in {x \in SeqsUpTo(l) : Len(x) <= t}}

\* Pattern { id, value }; ids are the positions in the list, hence unique.
MkPatterns(vs) == [i \in 1..Len(vs) |-> [id |-> i - 1, value |-> vs[i]]]

\* self.nodes[id]
N(ns, id) == ns[id + 1]

SetNode(ns, id, node) == [ns EXCEPT ![id + 1] = node]

\* add_node with the fail link left at FAIL instead of START.
add_node_fail(ns, depth) ==
    Append(ns, [depth |-> depth, fail |-> FAIL,
                transitions |-> [b \in Bytes |-> FAIL], matches |-> <<>>])

\* add_node: push a node with fail START and every transition FAIL; its id is
\* the previous length of the vector.
add_node(ns, depth) ==
    Append(ns, [depth |-> depth, fail |-> START,
                transitions |-> [b \in Bytes |-> FAIL], matches |-> <<>>])

\* Node::get_longest_match_len: the pattern_len of matches[0], if any.
get_longest_match_len(node) ==
    IF Len(node.matches) = 0 THEN None ELSE Some(node.matches[1].pattern_len)

\* get_location(id, match, end)
get_location(ns, id, m, end) ==
    LET node == N(ns, id)
    IN IF Len(node.matches) = 0 \/ m >= Len(node.matches)
       THEN None
       ELSE Some([match |-> node.matches[m + 1], end |-> end])

\* ---------------------------------------------------------- build_trie
RECURSIVE InsertBytesShort(_, _, _, _)
\* InsertBytes stopping one byte early: the chain lacks the node of the last
\* byte, and the match is recorded one node too high.
InsertBytesShort(ns, cur, value, depth) ==
    IF depth + 1 >= Len(value) THEN [nodes |-> ns, id |-> cur]
    ELSE LET byte == value[depth + 1]
             t == ns[cur + 1].transitions[byte]
         IN IF t = FAIL
            THEN LET new_node_id == Len(ns)
                     added == Append(ns, [depth |-> depth + 1, fail |-> START,
                                          transitions |-> [b \in Bytes |-> FAIL],
                                          matches |-> <<>>])
                     linked == [added EXCEPT ![cur + 1].transitions[byte] = new_node_id]
                 IN InsertBytesShort(linked, new_node_id, value, depth + 1)
            ELSE InsertBytesShort(ns, t, value, depth + 1)

RECURSIVE InsertBytes(_, _, _, _)
\* The inner loop of build_trie over the bytes of one pattern, from byte index
\* `depth` (0-based) at node `cur`: the pair of the nodes and the final node id.
InsertBytes(ns, cur, value, depth) ==
    IF depth >= Len(value) THEN [nodes |-> ns, id |-> cur]
    ELSE LET byte == value[depth + 1]
             t == N(ns, cur).transitions[byte]
         IN IF t = FAIL
            THEN LET new_node_id == Len(ns)
                     added == add_node(ns, depth + 1)
                     linked == SetNode(added, cur,
                                 [N(added, cur) EXCEPT !.transitions[byte] = new_node_id])
                 IN InsertBytes(linked, new_node_id, value, depth + 1)
            ELSE InsertBytes(ns, t, value, depth + 1)

\* The body of build_trie's loop for one pattern: the chain, then the match.
InsertPattern(ns, pattern) ==
    LET r == InsertBytes(ns, START, pattern.value, 0)
        m == [pattern_id |-> pattern.id, pattern_len |-> Len(pattern.value)]
    IN SetNode(r.nodes, r.id,
               [N(r.nodes, r.id) EXCEPT !.matches = Append(@, m)])

\* build_trie adding four sentinel nodes instead of three.
BuildTrieFourSentinels ==
    /\ pc = "build_trie"
    /\ Len(nodes) = 0
    /\ nodes' = add_node(add_node(add_node(add_node(nodes, 0), 0), 0), 0)
    /\ UNCHANGED <<patterns, queue, pc, built_from, call, driver, first, pushed>>

\* build_trie, first loop: the three sentinel nodes FAIL, DEAD, START.
BuildTrieSentinels ==
    /\ pc = "build_trie"
    /\ Len(nodes) = 0
    /\ nodes' = add_node(add_node(add_node(nodes, 0), 0), 0)
    /\ UNCHANGED <<patterns, queue, pc, built_from, call, driver, first, pushed>>

\* build_trie, second loop: one pattern.
BuildTriePattern ==
    /\ pc = "build_trie"
    /\ Len(nodes) >= 3
    /\ built_from < Len(patterns)
    /\ nodes' = InsertPattern(nodes, patterns[built_from + 1])
    /\ built_from' = built_from + 1
    /\ UNCHANGED <<patterns, queue, pc, call, driver, first, pushed>>

\* build_trie returns.
BuildTrieDone ==
    /\ pc = "build_trie"
    /\ Len(nodes) >= 3
    /\ built_from = Len(patterns)
    /\ pc' = "encode_start_to_start"
    /\ UNCHANGED <<patterns, nodes, queue, built_from, call, driver, first, pushed>>

\* ------------------------------------------------------ the encoders
\* Rewrite, in node `id`, every transition equal to `from` into `to`.
Rewrite(ns, id, from, to) ==
    SetNode(ns, id,
        [N(ns, id) EXCEPT !.transitions =
            [b \in Bytes |-> IF @[b] = from THEN to ELSE @[b]]])

encode_start_to_start ==
    /\ pc = "encode_start_to_start"
    /\ nodes' = Rewrite(nodes, START, FAIL, START)
    /\ pc' = "encode_dead_to_dead"
    /\ UNCHANGED <<patterns, queue, built_from, call, driver, first, pushed>>

encode_dead_to_dead ==
    /\ pc = "encode_dead_to_dead"
    /\ nodes' = Rewrite(nodes, DEAD, FAIL, DEAD)
    /\ pc' = "encode_trie_failure"
    /\ UNCHANGED <<patterns, queue, built_from, call, driver, first, pushed>>

\* ------------------------------------------------ encode_trie_failure
\* Position { id, depth_longest_match }
Position(id, d) == [id |-> id, depth_longest_match |-> d]

RECURSIVE FailureInitLoopNoSkip(_, _, _)
\* FailureInitLoop without the test of line 186: a transition of START that
\* loops to START is enqueued like any other.
FailureInitLoopNoSkip(ns, q, byte) ==
    IF byte \notin Bytes THEN [nodes |-> ns, queue |-> q]
    ELSE LET transition_id == ns[START + 1].transitions[byte]
         IN FailureInitLoopNoSkip(
                IF Len(ns[transition_id + 1].matches) > 0
                THEN [ns EXCEPT ![transition_id + 1].fail = DEAD]
                ELSE ns,
                Append(q, [id |-> transition_id,
                           depth_longest_match |->
                               IF Len(ns[START + 1].matches) > 0
                               THEN <<0>> ELSE <<>>]),
                byte + 1)

RECURSIVE FailureInitLoopAllDead(_, _, _)
\* FailureInitLoop with every direct child of START failing to DEAD, whether
\* it carries a match or not.
FailureInitLoopAllDead(ns, q, byte) ==
    IF byte \notin Bytes THEN [nodes |-> ns, queue |-> q]
    ELSE LET transition_id == ns[START + 1].transitions[byte]
         IN IF transition_id = START
            THEN FailureInitLoopAllDead(ns, q, byte + 1)
            ELSE FailureInitLoopAllDead(
                     [ns EXCEPT ![transition_id + 1].fail = DEAD],
                     Append(q, [id |-> transition_id,
                                depth_longest_match |->
                                    IF Len(ns[START + 1].matches) > 0
                                    THEN <<0>> ELSE <<>>]),
                     byte + 1)

RECURSIVE FailureInitLoop(_, _, _)
\* Lines 182-202, the loop over the bytes in ascending order, from `byte` on:
\* every transition of START that does not loop to START is enqueued, and a
\* direct child that carries a match fails to DEAD.
FailureInitLoop(ns, q, byte) ==
    IF byte \notin Bytes THEN [nodes |-> ns, queue |-> q]
    ELSE LET start_node == N(ns, START)
             transition_id == start_node.transitions[byte]
             match_depth == IF Len(start_node.matches) > 0 THEN Some(0) ELSE None
         IN IF transition_id = START
            THEN FailureInitLoop(ns, q, byte + 1)
            ELSE FailureInitLoop(
                     IF Len(N(ns, transition_id).matches) > 0
                     THEN SetNode(ns, transition_id,
                                  [N(ns, transition_id) EXCEPT !.fail = DEAD])
                     ELSE ns,
                     Append(q, Position(transition_id, match_depth)),
                     byte + 1)

\* NextMatchDepth that hands down the depth of the parent only: a match of
\* the child itself is not looked at.
NextMatchDepthInherited(position, transition_node) ==
    position.depth_longest_match

\* Lines 216-222: the depth of the match of the child, if any.
NextMatchDepth(position, transition_node) ==
    IF is_some(position.depth_longest_match) THEN position.depth_longest_match
    ELSE IF Len(transition_node.matches) > 0
         THEN Some(transition_node.depth
                   - unwrap(get_longest_match_len(transition_node)) + 1)
         ELSE None

\* FailId that takes the transition of position.id itself: the child falls
\* back to itself.
FailIdOfPosition(ns, position, byte) ==
    ns[position.id + 1].transitions[byte]

\* Lines 226-232: what the child falls back to.  The while loop tests the
\* transition of position.id, which is next_id and not FAIL here, so its body
\* never runs and fail_id stays the fail link of position.id: the result is
\* that node's transition on the byte, whatever it is.
FailId(ns, position, byte) ==
    LET fail_id == N(ns, position.id).fail
    IN N(ns, fail_id).transitions[byte]

RECURSIVE FailureByteLoopOverlapping(_, _, _, _)
\* FailureByteLoop of a construction for overlapping matches: no child is
\* forced to DEAD, and the matches of the fail target are put in front of the
\* child's own.
FailureByteLoopOverlapping(ns, q, position, byte) ==
    IF byte \notin Bytes THEN [nodes |-> ns, queue |-> q]
    ELSE LET next_id == ns[position.id + 1].transitions[byte]
         IN IF next_id = FAIL
            THEN FailureByteLoopOverlapping(ns, q, position, byte + 1)
            ELSE LET fail_id == ns[ns[position.id + 1].fail + 1].transitions[byte]
                 IN FailureByteLoopOverlapping(
                        [ns EXCEPT ![next_id + 1].fail = fail_id,
                                   ![next_id + 1].matches = ns[fail_id + 1].matches \o @],
                        Append(q, [id |-> next_id, depth_longest_match |-> <<>>]),
                        position, byte + 1)

RECURSIVE FailureByteLoop(_, _, _, _)
\* Lines 207-257, the loop over the bytes for one dequeued position.
FailureByteLoop(ns, q, position, byte) ==
    IF byte \notin Bytes THEN [nodes |-> ns, queue |-> q]
    ELSE LET next_id == N(ns, position.id).transitions[byte]
         IN IF next_id = FAIL
            THEN FailureByteLoop(ns, q, position, byte + 1)
            ELSE LET transition_node == N(ns, next_id)
                     next_match_depth == NextMatchDepth(position, transition_node)
                     q2 == Append(q, Position(next_id, next_match_depth))
                     fail_id == FailId(ns, position, byte)
                     to_dead ==
                         /\ is_some(next_match_depth)
                         /\ N(ns, next_id).depth - unwrap(next_match_depth) + 1
                                > N(ns, fail_id).depth
                 IN IF to_dead
                    THEN FailureByteLoop(
                             SetNode(ns, next_id, [N(ns, next_id) EXCEPT !.fail = DEAD]),
                             q2, position, byte + 1)
                    ELSE FailureByteLoop(
                             SetNode(ns, next_id,
                                 [N(ns, next_id) EXCEPT
                                     !.fail = fail_id,
                                     !.matches = @ \o N(ns, fail_id).matches]),
                             q2, position, byte + 1)

\* the ids of the positions push_back added to the queue `before`
Pushed(before, after) ==
    [i \in 1..(Len(after) - Len(before)) |-> after[Len(before) + i].id]

\* encode_trie_failure, lines 180-202.
FailureInit ==
    /\ pc = "encode_trie_failure"
    /\ LET r == FailureInitLoop(nodes, <<>>, 0)
       IN /\ nodes' = r.nodes
          /\ queue' = r.queue
          /\ pushed' = pushed \o Pushed(<<>>, r.queue)
    /\ pc' = "failure_loop"
    /\ UNCHANGED <<patterns, built_from, call, driver, first>>

\* encode_trie_failure, one iteration of the while loop of lines 205-266.
FailureStep ==
    /\ pc = "failure_loop"
    /\ queue # <<>>
    /\ LET position == Head(queue)
           prev == Len(queue) - 1
           r == FailureByteLoop(nodes, Tail(queue), position, 0)
           leaf_match == /\ Len(r.queue) = prev
                         /\ Len(N(r.nodes, position.id).matches) > 0
       IN /\ nodes' = IF leaf_match
                      THEN SetNode(r.nodes, position.id,
                                   [N(r.nodes, position.id) EXCEPT !.fail = DEAD])
                      ELSE r.nodes
          /\ queue' = r.queue
          /\ pushed' = pushed \o Pushed(Tail(queue), r.queue)
    /\ UNCHANGED <<patterns, pc, built_from, call, driver, first>>

\* encode_trie_failure returns: the queue is empty.
FailureDone ==
    /\ pc = "failure_loop"
    /\ queue = <<>>
    /\ pc' = "encode_start_to_dead"
    /\ UNCHANGED <<patterns, nodes, queue, built_from, call, driver, first, pushed>>

\* new, lines 67-70: encode_start_to_dead when START carries a match.
encode_start_to_dead ==
    /\ pc = "encode_start_to_dead"
    /\ nodes' = IF Len(N(nodes, START).matches) > 0
                THEN Rewrite(nodes, START, START, DEAD)
                ELSE nodes
    /\ pc' = "built"
    /\ UNCHANGED <<patterns, queue, built_from, call, driver, first, pushed>>

\* ---------------------------------------------------------------- find
\* The callers of find that share the automaton.
Callers == {1, 2}

\* the frame of a caller that is not in find
Idle == [pc |-> "idle", haystack |-> <<>>, arg |-> 0, start_byte_index |-> 0,
         current_node_id |-> START, id |-> START, last_location |-> None,
         result |-> None, prev |-> None]

\* haystack[start_byte_index], the byte the scan of caller c is at
Byte(f) == f.haystack[f.start_byte_index + 1]

\* find entered in the node the remembered call ended in: a cursor kept
\* between calls.
FindEnterResume(f, h, s) ==
    LET from == IF is_some(f.prev) THEN unwrap(f.prev).current_node_id ELSE START
    IN [pc |-> "scan", haystack |-> h, arg |-> s, start_byte_index |-> s,
        current_node_id |-> from, id |-> from,
        last_location |-> get_location(nodes, START, 0, s),
        result |-> None,
        prev |-> f.prev]

\* find, lines 75-76: the entry.  prev is history: a call that returned
\* earlier, kept to compare two calls with the same arguments.
FindEnter(f, h, s) ==
    [pc |-> "scan", haystack |-> h, arg |-> s, start_byte_index |-> s,
     current_node_id |-> START, id |-> START,
     last_location |-> get_location(nodes, START, 0, s),
     result |-> None,
     prev |-> f.prev]

FindBegin(c, h, s) ==
    /\ pc = "built"
    /\ call[c].pc = "idle"
    /\ driver.pc = "off"
    /\ call' = [call EXCEPT ![c] = FindEnter(call[c], h, s)]
    /\ UNCHANGED <<patterns, nodes, queue, pc, built_from, driver, first, pushed>>

\* get_next_non_fail_node_id, lines 109-111: the transition is FAIL, follow
\* the fail link.
FailWalk(c) ==
    LET f == call[c]
    IN /\ f.pc = "scan"
       /\ f.start_byte_index < Len(f.haystack)
       /\ N(nodes, f.id).transitions[Byte(f)] = FAIL
       /\ call' = [call EXCEPT ![c].id = N(nodes, f.id).fail]
       /\ UNCHANGED <<patterns, nodes, queue, pc, built_from, driver, first, pushed>>

\* Advance taking the location before start_byte_index is incremented: the
\* end is the offset of the last byte of the match, not the one after it.
AdvanceEarlyEnd(ns, f) ==
    LET next == N(ns, f.id).transitions[Byte(f)]
        end == f.start_byte_index + 1
        location == get_location(ns, next, 0, f.start_byte_index)
    IN IF next = DEAD
       THEN [f EXCEPT !.pc = "done", !.current_node_id = next, !.id = next,
                      !.start_byte_index = end, !.result = f.last_location]
       ELSE [f EXCEPT !.current_node_id = next, !.id = next,
                      !.start_byte_index = end,
                      !.last_location = IF is_some(location) THEN location ELSE @]

\* Lines 78-88 once get_next_non_fail_node_id has found a transition that is
\* not FAIL: the frame after the loop body.
Advance(ns, f) ==
    LET next == N(ns, f.id).transitions[Byte(f)]
        end == f.start_byte_index + 1
        location == get_location(ns, next, 0, end)
    IN IF next = DEAD
       THEN [f EXCEPT !.pc = "done", !.current_node_id = next, !.id = next,
                      !.start_byte_index = end, !.result = f.last_location]
       ELSE [f EXCEPT !.current_node_id = next, !.id = next,
                      !.start_byte_index = end,
                      !.last_location = IF is_some(location) THEN location ELSE @]

\* ScanStep that also stores the transition it resolved along the fail links
\* in the table of the current node.
ScanStepCaching(c) ==
    LET f == call[c]
        byte == Byte(f)
        next == N(nodes, f.id).transitions[byte]
    IN /\ f.pc = "scan"
       /\ f.start_byte_index < Len(f.haystack)
       /\ next # FAIL
       /\ call' = [call EXCEPT ![c] = Advance(nodes, f)]
       /\ nodes' = SetNode(nodes, f.current_node_id,
                       [N(nodes, f.current_node_id) EXCEPT !.transitions[byte] = next])
       /\ UNCHANGED <<patterns, queue, pc, built_from, driver, first, pushed>>

ScanStep(c) ==
    LET f == call[c]
    IN /\ f.pc = "scan"
       /\ f.start_byte_index < Len(f.haystack)
       /\ N(nodes, f.id).transitions[Byte(f)] # FAIL
       /\ call' = [call EXCEPT ![c] = Advance(nodes, f)]
       /\ UNCHANGED <<patterns, nodes, queue, pc, built_from, driver, first, pushed>>

\* Line 90: the haystack is exhausted.
FindReturn(c) ==
    LET f == call[c]
    IN /\ f.pc = "scan"
       /\ f.start_byte_index >= Len(f.haystack)
       /\ call' = [call EXCEPT ![c].pc = "done", ![c].result = f.last_location]
       /\ UNCHANGED <<patterns, nodes, queue, pc, built_from, driver, first, pushed>>

\* The caller takes the result; the frame is gone.  With keep, the call is
\* remembered in prev.
FindEnd(c, keep) ==
    LET f == call[c]
    IN /\ f.pc = "done"
       /\ driver.pc = "off"
       /\ call' = [call EXCEPT ![c] =
                     [Idle EXCEPT !.prev =
                        IF keep
                        THEN Some([haystack |-> f.haystack, arg |-> f.arg,
                                   result |-> f.result,
                                   current_node_id |-> f.current_node_id])
                        ELSE f.prev]]
       /\ UNCHANGED <<patterns, nodes, queue, pc, built_from, driver, first, pushed>>

\* ----------------------------------------------------------- tests::all
DriverOff == [pc |-> "off", haystack |-> <<>>, at |-> 0, locations |-> <<>>]

\* all(ll, haystack, 0) is called.
AllBegin(h) ==
    /\ pc = "built"
    /\ driver.pc = "off"
    /\ call[1].pc = "idle"
    /\ driver' = [pc |-> "loop", haystack |-> h, at |-> 0, locations |-> <<>>]
    /\ UNCHANGED <<patterns, nodes, queue, pc, built_from, call, first, pushed>>

\* Lines 317-318: at < haystack.len(), find is called at `at`.
AllCall ==
    /\ driver.pc = "loop"
    /\ driver.at < Len(driver.haystack)
    /\ call' = [call EXCEPT ![1] = FindEnter(Idle, driver.haystack, driver.at)]
    /\ driver' = [driver EXCEPT !.pc = "wait"]
    /\ UNCHANGED <<patterns, nodes, queue, pc, built_from, first, pushed>>

\* Lines 318-327: find has returned.
AllReturn ==
    /\ driver.pc = "wait"
    /\ call[1].pc = "done"
    /\ LET r == call[1].result
       IN driver' =
            IF is_some(r)
            THEN [driver EXCEPT
                    !.pc = "loop",
                    !.at = IF unwrap(r).end = @ THEN @ + 1 ELSE unwrap(r).end,
                    !.locations = Append(@, unwrap(r))]
            ELSE [driver EXCEPT !.pc = "done"]
    /\ call' = [call EXCEPT ![1] = Idle]
    /\ UNCHANGED <<patterns, nodes, queue, pc, built_from, first, pushed>>

\* Line 317: at >= haystack.len(), the loop ends.
AllExit ==
    /\ driver.pc = "loop"
    /\ driver.at >= Len(driver.haystack)
    /\ driver' = [driver EXCEPT !.pc = "done"]
    /\ UNCHANGED <<patterns, nodes, queue, pc, built_from, call, first, pushed>>

\* ------------------------------------------------------ specifications
Haystacks(n) == SeqsUpTo(n)

InitWith(pats) ==
    /\ patterns \in pats
    /\ nodes = <<>>
    /\ queue = <<>>
    /\ pc = "build_trie"
    /\ built_from = 0
    /\ call = [c \in Callers |-> Idle]
    /\ driver = DriverOff
    /\ first = None
    /\ pushed = <<>>

\* LeftmostLongest::new
New ==
    \/ BuildTrieSentinels
    \/ BuildTriePattern
    \/ BuildTrieDone
    \/ encode_start_to_start
    \/ encode_dead_to_dead
    \/ FailureInit
    \/ FailureStep
    \/ FailureDone
    \/ encode_start_to_dead

\* LeftmostLongest::new is called again on the same patterns; the automaton
\* of the first construction is kept in first.
Rebuild ==
    /\ pc = "built"
    /\ first = None
    /\ \A c \in Callers : call[c].pc = "idle" /\ call[c].prev = None
    /\ driver.pc = "off"
    /\ first' = Some(nodes)
    /\ nodes' = <<>>
    /\ queue' = <<>>
    /\ pc' = "build_trie"
    /\ built_from' = 0
    /\ pushed' = <<>>
    /\ UNCHANGED <<patterns, call, driver>>

\* the steps of find of caller c but the first
Scan(c) ==
    \/ FailWalk(c)
    \/ ScanStep(c)
    \/ FindReturn(c)

\* the steps of find of caller c on a haystack of at most n bytes, from a
\* start_byte_index of at most its length plus past
Find(c, n, past) ==
    \/ \E h \in Haystacks(n) : \E s \in 0..(Len(h) + past) : FindBegin(c, h, s)
    \/ Scan(c)

\* tests::all on a haystack of at most n bytes
All(n) ==
    \/ \E h \in Haystacks(n) : AllBegin(h)
    \/ AllCall
    \/ AllReturn
    \/ AllExit

NonEmpty(vs) == \A i \in DOMAIN vs : vs[i] # <<>>

\* One caller: any pattern list, zero-length patterns included, then find at
\* any start, also past the end of the haystack.
Init == InitWith({MkPatterns(vs) : vs \in PatternLists(MaxPats, MaxPatLen, MaxTotal)})

Next ==
    \/ New
    \/ Find(1, MaxHay, 1)
    \/ FindEnd(1, FALSE)

Spec == Init /\ [][Next]_vars

\* The same with fairness of the steps of find: a call that has begun goes on.
FairSpec == Spec /\ WF_vars(Scan(1))

\* The same for the pattern lists without a zero-length pattern.
InitNonEmpty ==
    InitWith({MkPatterns(vs) :
                vs \in {l \in PatternLists(MaxPats, MaxPatLen, MaxTotal) : NonEmpty(l)}})

SpecNonEmpty == InitNonEmpty /\ [][Next]_vars

\* The resumed scan of tests::all on the automaton of such a list.
NextAll ==
    \/ New
    \/ All(MaxHay)
    \/ Scan(1)

SpecAll == InitNonEmpty /\ [][NextAll]_vars

\* Three patterns P, Q, R, none of length zero, P a proper prefix of Q, and
\* find on longer haystacks.
PrefixLists ==
    {<<p, q, r>> : p \in SeqsUpTo(MaxPrefixed), q \in SeqsUpTo(MaxPrefixed),
                   r \in SeqsUpTo(MaxPatLen)}

IsProperPrefix(p, q) == Len(p) < Len(q) /\ SubSeq(q, 1, Len(p)) = p

InitPrefix ==
    InitWith({MkPatterns(vs) :
                vs \in {l \in PrefixLists : NonEmpty(l) /\ IsProperPrefix(l[1], l[2])}})

NextPrefix ==
    \/ New
    \/ Find(1, MaxHayPrefix, 0)
    \/ FindEnd(1, FALSE)

SpecPrefix == InitPrefix /\ [][NextPrefix]_vars

\* Two callers share the automaton of a small pattern list; their steps
\* interleave.
InitSmall == InitWith({MkPatterns(vs) : vs \in PatternLists(MaxPats, MaxPatLen, MaxTotalSmall)})

NextConc ==
    \/ New
    \/ \E c \in Callers : Find(c, MaxHaySmall, 0) \/ FindEnd(c, FALSE)

SpecConc == InitSmall /\ [][NextConc]_vars

\* One caller calls find again and again on the automaton of a small pattern
\* list, which is constructed once or twice; an earlier call is remembered.
NextAgain ==
    \/ New
    \/ Rebuild
    \/ Find(1, MaxHaySmall, 0)
    \/ \E keep \in BOOLEAN : FindEnd(1, keep)

SpecAgain == InitSmall /\ [][NextAgain]_vars

\* One caller, pattern lists without a zero-length pattern, and find from a
\* start within a longer haystack: a scan can leave a node three bytes deep.
NextLong ==
    \/ New
    \/ Find(1, MaxHayLong, 0)
    \/ FindEnd(1, FALSE)

SpecLong == InitNonEmpty /\ [][NextLong]_vars

\* LeftmostLongest::new alone, on longer pattern lists, zero-length patterns
\* included: the construction from its call to its return.
InitNew ==
    InitWith({MkPatterns(vs) : vs \in PatternLists(MaxPatsNew, MaxPatLenNew, MaxTotalNew)})

SpecNew == InitNew /\ [][New]_vars

\* new alone on the pattern lists of Init, with fairness of its steps: the
\* construction, once called, runs on.
FairSpecNew == Init /\ [][New]_vars /\ WF_vars(New)

\* ------------------------------------------- the brute-force reference
\* value occurs in h at the 0-based offset o
Occurs(value, h, o) ==
    /\ o + Len(value) <= Len(h)
    /\ SubSeq(h, o + 1, o + Len(value)) = value

\* the offsets >= s at which some pattern occurs
MatchStarts(pats, h, s) ==
    {o \in s..Len(h) : \E i \in DOMAIN pats : Occurs(pats[i].value, h, o)}

Min(S) == CHOOSE x \in S : \A y \in S : x <= y
Max(S) == CHOOSE x \in S : \A y \in S : x >= y

\* The leftmost-longest occurrence at or after s: its start, the greatest
\* length of a pattern occurring there, its end and the ids of the patterns
\* of that length occurring there; None when no pattern occurs.
Reference(pats, h, s) ==
    LET starts == MatchStarts(pats, h, s)
    IN IF starts = {} THEN None
       ELSE LET o == Min(starts)
                here == {i \in DOMAIN pats : Occurs(pats[i].value, h, o)}
                len == Max({Len(pats[i].value) : i \in here})
            IN Some([start |-> o, len |-> len, end |-> o + len,
                     ids |-> {pats[i].id : i \in {j \in here : Len(pats[j].value) = len}}])

\* location is the occurrence ref
Agrees(location, ref) ==
    /\ location.end = ref.end
    /\ location.match.pattern_len = ref.len
    /\ location.match.pattern_id \in ref.ids

\* the calls of find that have returned, with start_byte_index <= len(haystack)
Returned == {c \in Callers : call[c].pc = "done"}
ReturnedInRange == {c \in Returned : call[c].arg <= Len(call[c].haystack)}

\* --------------------------------------------------------------- claims

\* C1: leftmost-longest law: when some pattern occurs at an offset >=
\* start_byte_index <= len(haystack), find returns the longest pattern
\* occurring at the smallest such offset, as the brute-force scanner computes it.
LeftmostLongestLaw ==
    \A c \in ReturnedInRange :
        LET f == call[c]
            ref == Reference(patterns, f.haystack, f.arg)
        IN is_some(ref) =>
            /\ is_some(f.result)
            /\ Agrees(unwrap(f.result), unwrap(ref))

RECURSIVE ReferenceAll(_, _, _)
\* The successive non-overlapping leftmost-longest occurrences from offset at:
\* the next one is searched at the end of the previous one, or one byte
\* further when that end is the offset searched from.
ReferenceAll(pats, h, at) ==
    IF at >= Len(h) THEN <<>>
    ELSE LET ref == Reference(pats, h, at)
         IN IF ref = None THEN <<>>
            ELSE <<unwrap(ref)>> \o
                 ReferenceAll(pats, h,
                     IF unwrap(ref).end = at THEN at + 1 ELSE unwrap(ref).end)

\* C2: resumed scanning: tests::all, which resumes find at the end of the
\* previous match (or one byte further) until the first None, collects exactly
\* the successive non-overlapping leftmost-longest occurrences, and their end
\* offsets increase strictly.
ResumedScanning ==
    driver.pc = "done" =>
        LET refs == ReferenceAll(patterns, driver.haystack, 0)
            locs == driver.locations
        IN /\ Len(locs) = Len(refs)
           /\ \A i \in 1..Len(locs) : Agrees(locs[i], refs[i])
           /\ \A i \in 1..(Len(locs) - 1) : locs[i].end < locs[i + 1].end

\* no pattern occurs anywhere in h
NoOccurrence(pats, h) == MatchStarts(pats, h, 0) = {}

\* C4: no-match case: when no pattern occurs in the haystack, find returns
\* None for every start offset.
NoMatchCase ==
    \A c \in Returned :
        NoOccurrence(patterns, call[c].haystack) => call[c].result = None

\* A call on a haystack of at least two bytes in which no pattern occurs has
\* returned after the scan left START on a prefix of a pattern.
NoMatchCaseWitness ==
    \E c \in Returned :
        /\ Len(patterns) > 0
        /\ Len(call[c].haystack) >= 2
        /\ call[c].arg = 0
        /\ NoOccurrence(patterns, call[c].haystack)
        /\ call[c].current_node_id \notin {FAIL, DEAD, START}
        /\ call[c].result = None

\* C5: every Location find returns has end <= len(haystack), for every
\* start_byte_index.
EndWithinHaystack ==
    \A c \in Returned :
        is_some(call[c].result) => unwrap(call[c].result).end <= Len(call[c].haystack)

\* the location is an occurrence, at or after s, of the pattern it names
Sound(pats, h, s, location) ==
    LET len == location.match.pattern_len
        start == location.end - len
    IN /\ \E i \in DOMAIN pats :
            /\ pats[i].id = location.match.pattern_id
            /\ Len(pats[i].value) = len
            /\ start >= 0
            /\ Occurs(pats[i].value, h, start)
       /\ s <= start
       /\ start <= location.end
       /\ location.end <= Len(h)

\* C10: soundness of a reported location: with start_byte_index <=
\* len(haystack), the pattern named by pattern_id has length pattern_len and
\* occurs in the haystack at [end - pattern_len, end), which lies between
\* start_byte_index and len(haystack).
LocationSound ==
    \A c \in ReturnedInRange :
        is_some(call[c].result) =>
            Sound(patterns, call[c].haystack, call[c].arg, unwrap(call[c].result))

\* A call that started after offset 0 has returned a match of a pattern of at
\* least one byte that starts after the offset the scan started at.
LocationSoundWitness ==
    \E c \in ReturnedInRange :
        /\ is_some(call[c].result)
        /\ call[c].arg > 0
        /\ unwrap(call[c].result).end - unwrap(call[c].result).match.pattern_len > call[c].arg
        /\ unwrap(call[c].result).match.pattern_len > 0

\* C9: an empty pattern set gives the three sentinel nodes only, and find
\* returns None for every haystack and every start_byte_index.
EmptyPatternSet ==
    (patterns = <<>> /\ pc = "built") =>
        /\ Len(nodes) = 3
        /\ \A c \in Returned : call[c].result = None

\* find has scanned a haystack of two bytes or more on the automaton of the
\* empty pattern set.
EmptyPatternSetWitness ==
    /\ patterns = <<>>
    /\ pc = "built"
    /\ \E c \in Returned : Len(call[c].haystack) >= 2 /\ call[c].start_byte_index >= 2

\* C3: substring containment: when P is a proper prefix of Q and Q is the
\* longest pattern occurring at the leftmost match start offset >=
\* start_byte_index, find returns Q with end = start + len(Q), and not P.
SubstringContainment ==
    \A c \in ReturnedInRange :
        LET f == call[c]
            ref == Reference(patterns, f.haystack, f.arg)
        IN \A p, q \in DOMAIN patterns :
            ( /\ IsProperPrefix(patterns[p].value, patterns[q].value)
              /\ is_some(ref)
              /\ Occurs(patterns[q].value, f.haystack, unwrap(ref).start)
              /\ Len(patterns[q].value) = unwrap(ref).len )
            => /\ is_some(f.result)
               /\ unwrap(f.result).end = unwrap(ref).start + Len(patterns[q].value)
               /\ unwrap(f.result).match.pattern_len = Len(patterns[q].value)
               /\ \E i \in DOMAIN patterns :
                    /\ patterns[i].id = unwrap(f.result).match.pattern_id
                    /\ patterns[i].value = patterns[q].value

RECURSIVE RunAlone(_, _)
\* find run alone, from frame f to its return: the result.
RunAlone(ns, f) ==
    IF f.pc = "done" THEN f.result
    ELSE IF f.start_byte_index >= Len(f.haystack) THEN f.last_location
    ELSE IF N(ns, f.id).transitions[Byte(f)] = FAIL
         THEN RunAlone(ns, [f EXCEPT !.id = N(ns, f.id).fail])
         ELSE RunAlone(ns, Advance(ns, f))

\* C6: concurrent read-only use: no step of a find call changes a node of
\* the automaton, and every call, whatever the interleaving with the steps of
\* the other caller, returns the result it returns when run alone.
ConcurrentReadOnly ==
    /\ [][(call' # call) => (nodes' = nodes)]_vars
    /\ [](\A c \in Returned :
            call[c].result =
                RunAlone(nodes, FindEnter(Idle, call[c].haystack, call[c].arg)))

\* Both callers have returned from scans of different haystacks that followed
\* fail links, one with a match and one without.
ConcurrentReadOnlyWitness ==
    /\ Returned = Callers
    /\ call[1].haystack # call[2].haystack
    /\ Len(call[1].haystack) >= 2
    /\ Len(call[2].haystack) >= 2
    /\ is_some(call[1].result)
    /\ call[2].result = None

\* C7: determinism: a second construction from the same patterns yields the
\* same automaton, and a find call returns what an earlier call with the same
\* haystack and start_byte_index returned, whatever calls were made in between.
Determinism ==
    /\ (pc = "built" /\ is_some(first)) => nodes = unwrap(first)
    /\ \A c \in Returned :
        LET f == call[c]
        IN ( /\ is_some(f.prev)
             /\ unwrap(f.prev).haystack = f.haystack
             /\ unwrap(f.prev).arg = f.arg )
           => f.result = unwrap(f.prev).result

\* On the automaton of the second construction, a call has returned the match
\* an earlier call with the same arguments returned.
DeterminismWitness ==
    /\ pc = "built"
    /\ is_some(first)
    /\ Len(nodes) > 3
    /\ \E c \in Returned :
        /\ is_some(call[c].prev)
        /\ unwrap(call[c].prev).haystack = call[c].haystack
        /\ unwrap(call[c].prev).arg = call[c].arg
        /\ is_some(call[c].result)
        /\ Len(call[c].haystack) >= 2

StartOf(location) == location.end - location.match.pattern_len

\* C11: within one find call, the start offsets (end - pattern_len) of the
\* successive recorded matches never increase: a recorded match is never
\* replaced by a match that starts later.
StartsNeverIncrease ==
    [][\A c \in Callers :
          ( /\ call[c].pc = "scan"
            /\ call'[c].pc \in {"scan", "done"}
            /\ is_some(call[c].last_location)
            /\ is_some(call'[c].last_location) )
          => StartOf(unwrap(call'[c].last_location))
                <= StartOf(unwrap(call[c].last_location))]_vars

RECURSIVE Closure(_, _)
\* the least set of node ids that holds S and the target of every transition,
\* other than FAIL ("no transition"), of each of its nodes
Closure(ns, S) ==
    LET T == (S \cup {N(ns, i).transitions[b] : i \in S, b \in Bytes}) \ {FAIL}
    IN IF T = S THEN S ELSE Closure(ns, T)

\* the nodes reachable from START through transitions
ReachableNodes(ns) == Closure(ns, {START})

\* C12: after construction, the fail link of every node reachable from START
\* through transitions is the id of a node, and not FAIL (0).
FailNeverFAIL ==
    pc = "built" =>
        \A id \in ReachableNodes(nodes) :
            /\ N(nodes, id).fail \in 0..(Len(nodes) - 1)
            /\ N(nodes, id).fail # FAIL

\* C13: FAIL is never encountered at scan time: in a find call, neither the
\* current node after a byte is consumed nor a node visited while walking fail
\* links to resolve a transition is the FAIL sentinel (id 0).
FailNeverEncountered ==
    \A c \in Callers :
        call[c].pc \in {"scan", "done"} =>
            /\ call[c].current_node_id # FAIL
            /\ call[c].id # FAIL

RECURSIVE NodeAt(_, _, _)
\* the node of the trie reached from node cur along the bytes of path, FAIL
\* when the trie has no such node; the edges of the trie are the transitions
\* to pattern-derived nodes (ids above START)
NodeAt(ns, cur, path) ==
    IF path = <<>> THEN cur
    ELSE LET t == N(ns, cur).transitions[Head(path)]
         IN IF t <= START THEN FAIL ELSE NodeAt(ns, t, Tail(path))

RECURSIVE PathsFrom(_, _, _)
\* the byte paths of node cur, whose own path is prefix, and of the nodes of
\* the trie below it
PathsFrom(ns, cur, prefix) ==
    {prefix} \cup
    UNION {PathsFrom(ns, N(ns, cur).transitions[b], Append(prefix, b)) :
             b \in {x \in Bytes : N(ns, cur).transitions[x] > START}}

\* the non-empty byte paths that lead to a node of the trie
TriePaths(ns) == PathsFrom(ns, START, <<>>) \ {<<>>}

RECURSIVE SuffixNodeFrom(_, _, _)
\* the node of the longest suffix of path, dropping k bytes or more, that is a
\* prefix in the trie; START when only the empty suffix is
SuffixNodeFrom(ns, path, k) ==
    IF k >= Len(path) THEN START
    ELSE LET n == NodeAt(ns, START, SubSeq(path, k + 1, Len(path)))
         IN IF n # FAIL THEN n ELSE SuffixNodeFrom(ns, path, k + 1)

\* the node of the longest proper suffix of path that is a prefix in the trie
SuffixNode(ns, path) == SuffixNodeFrom(ns, path, 1)

\* C14: failure-link target: after construction, the fail link of every
\* pattern-derived node that does not fail to DEAD is the node of the longest
\* proper suffix of its byte path that is a prefix in the trie, START if there
\* is none.
FailureLinkTarget ==
    pc = "built" =>
        \A p \in TriePaths(nodes) :
            LET next == NodeAt(nodes, START, p)
            IN N(nodes, next).fail # DEAD =>
                   N(nodes, next).fail = SuffixNode(nodes, p)

\* v is a suffix of the byte path p
IsSuffix(v, p) == Len(v) <= Len(p) /\ SubSeq(p, Len(p) - Len(v) + 1, Len(p)) = v

\* the lengths of the patterns that end at the node of path p
EndingLens(pats, p) == {Len(pats[i].value) : i \in {j \in DOMAIN pats : IsSuffix(pats[j].value, p)}}

\* C15: after construction, for every node of the trie with a non-empty match
\* list, matches[0] is a longest pattern that is a suffix of the byte path
\* of the node, and no later element of the list is longer than matches[0].
LongestMatchFirst ==
    pc = "built" =>
        \A p \in TriePaths(nodes) \cup {<<>>} :
            LET matches == N(nodes, NodeAt(nodes, START, p)).matches
            IN Len(matches) > 0 =>
                /\ \E i \in DOMAIN patterns :
                      /\ patterns[i].id = matches[1].pattern_id
                      /\ Len(patterns[i].value) = matches[1].pattern_len
                      /\ IsSuffix(patterns[i].value, p)
                /\ matches[1].pattern_len = Max(EndingLens(patterns, p))
                /\ \A k \in DOMAIN matches :
                      matches[k].pattern_len <= matches[1].pattern_len

\* The automaton is constructed and one of its nodes, two bytes deep or more
\* and not the end of a pattern, holds a match inherited from the node it
\* fails to, while another node holds its own match.
LongestMatchFirstWitness ==
    /\ pc = "built"
    /\ \E p \in TriePaths(nodes) :
          LET node == N(nodes, NodeAt(nodes, START, p))
          IN /\ Len(node.matches) > 0
             /\ node.matches[1].pattern_len < Len(p)
             /\ node.fail \notin {FAIL, DEAD, START}
    /\ \E p \in TriePaths(nodes) :
          LET node == N(nodes, NodeAt(nodes, START, p))
          IN /\ Len(node.matches) > 0
             /\ node.matches[1].pattern_len = Len(p)
             /\ Len(p) >= 2

\* C16: whenever the scan of find enters DEAD a match has been recorded:
\* find never returns None for having halted on DEAD.
DeadHasMatch ==
    \A c \in Callers :
        (call[c].pc \in {"scan", "done"} /\ call[c].current_node_id = DEAD)
            => /\ is_some(call[c].last_location)
               /\ call[c].pc = "done"
               /\ call[c].result = call[c].last_location

\* A scan has halted on DEAD before the end of the haystack, having walked
\* into DEAD along the fail link of a node that holds a pattern of one byte
\* or more, and has returned the match recorded there.
DeadHasMatchWitness ==
    \E c \in Returned :
        /\ call[c].current_node_id = DEAD
        /\ call[c].start_byte_index < Len(call[c].haystack)
        /\ is_some(call[c].result)
        /\ unwrap(call[c].result).match.pattern_len > 0
        /\ unwrap(call[c].result).end = call[c].start_byte_index - 1

\* the node has no transition to a node of the trie
IsLeaf(node) == \A b \in Bytes : node.transitions[b] = FAIL

\* C17: after construction, no pattern-derived node that carries a match, its
\* own or an inherited one, fails to START; every direct child of START that
\* carries a match and every leaf that carries a match fails to DEAD.
MatchNeverFailsToStart ==
    pc = "built" =>
        \A id \in (START + 1)..(Len(nodes) - 1) :
            LET node == N(nodes, id)
            IN Len(node.matches) > 0 =>
                /\ node.fail # START
                /\ (node.depth = 1 \/ IsLeaf(node)) => node.fail = DEAD

\* The automaton is constructed with a direct child of START that carries a
\* match, a leaf that carries a match two bytes deep or more, and a node
\* without a match that fails to START.
MatchNeverFailsToStartWitness ==
    /\ pc = "built"
    /\ \E id \in (START + 1)..(Len(nodes) - 1) :
          /\ Len(N(nodes, id).matches) > 0
          /\ N(nodes, id).depth = 1
    /\ \E id \in (START + 1)..(Len(nodes) - 1) :
          /\ Len(N(nodes, id).matches) > 0
          /\ N(nodes, id).depth >= 2
          /\ IsLeaf(N(nodes, id))
    /\ \E id \in (START + 1)..(Len(nodes) - 1) :
          /\ Len(N(nodes, id).matches) = 0
          /\ N(nodes, id).fail = START

\* the pattern list holds a zero-length pattern
HasZeroLength(pats) == \E i \in DOMAIN pats : pats[i].value = <<>>

\* C18: with a zero-length pattern in the set, every find with
\* start_byte_index <= len(haystack) returns a match that starts at
\* start_byte_index: the longest pattern occurring there, the zero-length
\* pattern with end = start_byte_index when no other occurs there.
ZeroLengthAtStart ==
    HasZeroLength(patterns) =>
        \A c \in ReturnedInRange :
            LET f == call[c]
            IN /\ is_some(f.result)
               /\ StartOf(unwrap(f.result)) = f.arg
               /\ Agrees(unwrap(f.result), unwrap(Reference(patterns, f.haystack, f.arg)))

\* C19: no pattern-derived node ever has a fail link equal to its own id:
\* fail_id # next_id holds whenever encode_trie_failure assigns a fail link,
\* and after construction.
NoSelfFail ==
    \A id \in (START + 1)..(Len(nodes) - 1) : N(nodes, id).fail # id

\* The automaton is constructed and has a node three bytes deep whose fail
\* link was assigned from fail_id (line 245) and is another pattern-derived
\* node.
NoSelfFailWitness ==
    /\ pc = "built"
    /\ \E id \in (START + 1)..(Len(nodes) - 1) :
          /\ N(nodes, id).depth >= 3
          /\ N(nodes, id).fail > START
          /\ N(nodes, id).fail # id

\* the breadth-first pass has pushed no id twice and no sentinel, and when
\* it has returned its queue is empty and it has pushed every
\* pattern-derived node
EnqueuedOnce ==
    /\ \A i, j \in DOMAIN pushed : i # j => pushed[i] # pushed[j]
    /\ \A i \in DOMAIN pushed : pushed[i] \notin {FAIL, DEAD, START}
    /\ pc \in {"encode_start_to_dead", "built"} =>
          /\ queue = <<>>
          /\ {pushed[i] : i \in DOMAIN pushed} = (START + 1)..(Len(nodes) - 1)

\* C20: construction terminates for every pattern list, lists with a
\* zero-length pattern included: the breadth-first pass of
\* encode_trie_failure enqueues each pattern-derived node exactly once and
\* never START, DEAD or FAIL, its queue becomes empty, and new returns.
ConstructionTerminates ==
    /\ []EnqueuedOnce
    /\ <>(pc = "built" /\ queue = <<>>)

\* The automaton of a list with a zero-length pattern is constructed; the
\* pass has pushed its four or more pattern-derived nodes.
ConstructionTerminatesWitness ==
    /\ pc = "built"
    /\ HasZeroLength(patterns)
    /\ Len(nodes) >= START + 5
    /\ Len(pushed) = Len(nodes) - (START + 1)

====
